---- MODULE Spec2Model ----
(***************************************************************************)
(* Model of prompt-gen: the selection state kept by the interactive loop   *)
(* (tui.py), the effective-selection resolver, and the generation of the   *)
(* project overview (output_generator.py) over a small fixed file system.  *)
(*                                                                         *)
(* A path is the sequence of its component names: "/" is << >>,            *)
(* "/proj/src" is <<"proj", "src">>.  All paths are absolute and already   *)
(* normalised, so os.path.normpath and os.path.abspath leave them as they  *)
(* are.                                                                    *)
(***************************************************************************)
EXTENDS Integers, Sequences, FiniteSets, TLC

VARIABLES
    pc,                     \* "loop" while tui_main's while-loop runs, "done" after quit,
                            \* "crashed" after an exception has left tui_main
    current_path,           \* tui_main: directory being displayed
    items,                  \* tui_main: listing of current_path
    current_selection_idx,  \* tui_main: cursor
    selection_roots,        \* tui_main: set of root paths
    explicit_exclusions,    \* tui_main: set of excluded paths
    status_message,         \* tui_main: status bar text of this iteration
    error_msg,              \* tui_main: error line of this iteration
    generation,             \* the generate_output_from_selection call of this iteration, if any
    last                    \* history: the operation just performed and the sets it started from

vars == <<pc, current_path, items, current_selection_idx, selection_roots,
          explicit_exclusions, status_message, error_msg, generation, last>>

-----------------------------------------------------------------------------
(* Bounds *)

\* at most this many paths are marked (as root or exclusion) at any time
MaxMarked == 3

-----------------------------------------------------------------------------
(* Names and strings.  A name is a TLA+ string; Chars gives its characters *)
(* as code points, so that prefix tests, lower() and string order are      *)
(* computed as Python computes them.                                       *)

Names == {"proj", "src", "sub", "b.py", "lib", "c.py", ".env", ".git", "HEAD",
          "node_modules", "Makefile", "a.py", "yarn.lock"}

Chars(n) ==
    CASE n = "proj" -> <<112, 114, 111, 106>>
      [] n = "src" -> <<115, 114, 99>>
      [] n = "sub" -> <<115, 117, 98>>
      [] n = "b.py" -> <<98, 46, 112, 121>>
      [] n = "lib" -> <<108, 105, 98>>
      [] n = "c.py" -> <<99, 46, 112, 121>>
      [] n = ".env" -> <<46, 101, 110, 118>>
      [] n = ".git" -> <<46, 103, 105, 116>>
      [] n = "HEAD" -> <<72, 69, 65, 68>>
      [] n = "node_modules" -> <<110, 111, 100, 101, 95, 109, 111, 100, 117, 108, 101, 115>>
      [] n = "Makefile" -> <<77, 97, 107, 101, 102, 105, 108, 101>>
      [] n = "a.py" -> <<97, 46, 112, 121>>
      [] n = "yarn.lock" -> <<121, 97, 114, 110, 46, 108, 111, 99, 107>>
      [] n = "." -> <<46>>
      [] n = ".." -> <<46, 46>>

Dot == 46
Sep == 47

\* str.startswith on character sequences
StrStartsWith(s, t) == Len(t) <= Len(s) /\ SubSeq(s, 1, Len(t)) = t

\* Python's < on strings: lexicographic on code points, a proper prefix is smaller
RECURSIVE StrLess(_, _)
StrLess(s, t) ==
    IF t = << >> THEN FALSE
    ELSE IF s = << >> THEN TRUE
    ELSE IF Head(s) # Head(t) THEN Head(s) < Head(t)
    ELSE StrLess(Tail(s), Tail(t))

\* str.lower() on ASCII
LowerChar(c) == IF c >= 65 /\ c <= 90 THEN c + 32 ELSE c
StrLower(s) == [i \in 1..Len(s) |-> LowerChar(s[i])]

\* name.startswith("."), evaluated once for every name
HiddenNames == {n \in Names : StrStartsWith(Chars(n), <<Dot>>)}
IsHiddenName(n) == n \in HiddenNames

\* the string of an absolute path: "/" for << >>, else "/" + name for each component
RECURSIVE PathStr(_)
PathStr(p) ==
    IF p = << >> THEN <<Sep>>
    ELSE IF Len(p) = 1 THEN <<Sep>> \o Chars(p[1])
    ELSE PathStr(SubSeq(p, 1, Len(p) - 1)) \o <<Sep>> \o Chars(p[Len(p)])

\* os.path.dirname on an absolute normalised path; dirname("/") = "/"
dirname(p) == IF p = << >> THEN p ELSE SubSeq(p, 1, Len(p) - 1)

\* os.path.basename
basename(p) == p[Len(p)]

\* os.path.join(dir, name)
join(p, n) == Append(p, n)

\* b is a or an ancestor directory of a
IsAncestorOrSelf(b, a) == Len(b) <= Len(a) /\ SubSeq(a, 1, Len(b)) = b
IsProperAncestor(b, a) == IsAncestorOrSelf(b, a) /\ b # a

\* the chain a, dirname(a), ... down to but not including the ancestor b
ChainBelow(a, b) == {SubSeq(a, 1, k) : k \in (Len(b) + 1)..Len(a)}

-----------------------------------------------------------------------------
(* The file system the program runs on.                                    *)

Root == << >>
Proj == <<"proj">>
Src == <<"proj", "src">>
Sub == <<"proj", "src", "sub">>
SubB == <<"proj", "src", "sub", "b.py">>
Lib == <<"proj", "src", "lib">>
LibC == <<"proj", "src", "lib", "c.py">>
SrcEnv == <<"proj", "src", ".env">>
Git == <<"proj", ".git">>
GitHead == <<"proj", ".git", "HEAD">>
NodeModules == <<"proj", "node_modules">>
Makefile == <<"proj", "Makefile">>
APy == <<"proj", "a.py">>
YarnLock == <<"proj", "yarn.lock">>

Dirs == {Root, Proj, Src, Sub, Lib, Git, NodeModules}
Files == {SubB, LibC, SrcEnv, GitHead, Makefile, APy, YarnLock}
Paths == Dirs \cup Files

\* os.path.isdir, os.path.isfile
isdir(p) == p \in Dirs
isfile(p) == p \in Files

\* a.startswith(b) on the path strings, evaluated once for every pair of paths
StartsWithPairs ==
    {pr \in Paths \X Paths : StrStartsWith(PathStr(pr[1]), PathStr(pr[2]))}
PathStartsWith(a, b) == <<a, b>> \in StartsWithPairs

\* a.startswith(b + os.sep) on the path strings
StartsWithSepPairs ==
    {pr \in Paths \X Paths : StrStartsWith(PathStr(pr[1]), PathStr(pr[2]) \o <<Sep>>)}
PathStartsWithSep(a, b) == <<a, b>> \in StartsWithSepPairs

\* the position of a string among the strings of a set, in Python's string order
\* (f @@ << >> is the function f, held as an evaluated table)
PathRank ==
    [p \in Paths |-> Cardinality({q \in Paths : StrLess(PathStr(q), PathStr(p))})] @@ << >>
NameRank ==
    [n \in Names |-> Cardinality({m \in Names : StrLess(Chars(m), Chars(n))})] @@ << >>
LowerRank == [n \in Names |->
                Cardinality({m \in Names : StrLess(StrLower(Chars(m)), StrLower(Chars(n)))})] @@ << >>

\* os.getcwd() of the process and the initial_path argument ("." by default)
base_run_directory == Proj
initial_path == Proj

-----------------------------------------------------------------------------
(* tui.py: is_effectively_selected                                         *)

None == "None"
NoPath == <<"None">>

\* variant: the walk reports the top of the file system as a root when it finds none
RECURSIVE FindSelectedAncestorRoot_TopIsRoot(_, _)
FindSelectedAncestorRoot_TopIsRoot(current_path_segment, roots) ==
    IF current_path_segment \in roots THEN current_path_segment
    ELSE LET parent == dirname(current_path_segment) IN
         IF parent = current_path_segment THEN current_path_segment
         ELSE FindSelectedAncestorRoot_TopIsRoot(parent, roots)

\* first loop: walk upwards to the nearest path that is in selection_roots
RECURSIVE FindSelectedAncestorRoot(_, _)
FindSelectedAncestorRoot(current_path_segment, roots) ==
    IF current_path_segment \in roots THEN current_path_segment
    ELSE LET parent == dirname(current_path_segment) IN
         IF parent = current_path_segment THEN NoPath
         ELSE FindSelectedAncestorRoot(parent, roots)

\* variant: the walk also looks for an exclusion at the root found and above it
RECURSIVE ExclusionWalk_PastRoot(_, _, _)
ExclusionWalk_PastRoot(current_path_segment, selected_ancestor_root, exclusions) ==
    IF current_path_segment \in exclusions THEN FALSE
    ELSE LET parent == dirname(current_path_segment) IN
         IF parent = current_path_segment THEN TRUE
         ELSE ExclusionWalk_PastRoot(parent, selected_ancestor_root, exclusions)

\* second loop: walk from the item up to the root found, looking for an exclusion
RECURSIVE ExclusionWalk(_, _, _)
ExclusionWalk(current_path_segment, selected_ancestor_root, exclusions) ==
    IF current_path_segment = selected_ancestor_root THEN TRUE
    ELSE IF current_path_segment \in exclusions THEN FALSE
    ELSE LET parent == dirname(current_path_segment) IN
         IF parent = current_path_segment THEN FALSE
         ELSE IF ~PathStartsWith(current_path_segment, selected_ancestor_root) THEN TRUE
         \* "if not current_path_segment: break": the string of a path is never empty
         ELSE IF PathStr(parent) = << >> THEN TRUE
         ELSE ExclusionWalk(parent, selected_ancestor_root, exclusions)

\* variant: an exclusion on the item itself is honoured before the root test
is_effectively_selected_ExclusionFirst(item_path, roots, exclusions) ==
    LET selected_ancestor_root == FindSelectedAncestorRoot(item_path, roots) IN
    IF selected_ancestor_root = NoPath THEN FALSE
    ELSE IF item_path \in exclusions THEN FALSE
    ELSE IF item_path = selected_ancestor_root THEN TRUE
    ELSE ExclusionWalk(item_path, selected_ancestor_root, exclusions)

is_effectively_selected(item_path, roots, exclusions) ==
    LET selected_ancestor_root == FindSelectedAncestorRoot(item_path, roots) IN
    IF selected_ancestor_root = NoPath THEN FALSE
    ELSE IF item_path = selected_ancestor_root THEN TRUE
    ELSE ExclusionWalk(item_path, selected_ancestor_root, exclusions)

-----------------------------------------------------------------------------
(* file_operations.py: get_dir_contents                                    *)

\* the elements of S as a sequence in ascending order of their (distinct) keys
SortSet(S, key) ==
    [i \in 1..Cardinality(S) |->
        CHOOSE x \in S : Cardinality({y \in S : key[y] < key[x]}) = i - 1] \o << >>

\* os.listdir(path): the names in the directory (the order is the system's)
listdir(path) == {basename(q) : q \in {r \in Paths \ {Root} : dirname(r) = path}}

\* sort key (not x["is_dir"], x["name"].lower()) as a number: directories first
ItemKey(x) == (IF x.is_dir THEN 0 ELSE Cardinality(Names)) + LowerRank[x.name]

ListDirContents(path) ==
    LET visible == {n \in listdir(path) : ~IsHiddenName(n)}
        entries == {[name |-> n, is_dir |-> isdir(join(path, n)), path |-> join(path, n)]
                       : n \in visible}
    IN [items |-> SortSet(entries, [x \in entries |-> ItemKey(x)]),
        error_message |-> None]

\* the listings of all directories, evaluated once
Listings == [p \in Dirs |-> ListDirContents(p)] @@ << >>

\* what os.listdir may raise ("none": it returns), and the directories for which
\* the system may do so
ListdirRaises == {"none", "PermissionError", "FileNotFoundError", "NotADirectoryError"}
FlakyDirs == {Src}
listdir_raises(path) == IF path \in FlakyDirs THEN ListdirRaises ELSE {"none"}

\* lines 6-23: get_dir_contents(path) when os.listdir raises exc.  The two except
\* clauses return an empty listing with a message; any other exception leaves the
\* function (raises)
get_dir_contents(path, exc) ==
    IF exc = "none"
    THEN [items |-> Listings[path].items, error_message |-> None, raises |-> FALSE]
    ELSE IF exc = "PermissionError"
    THEN [items |-> << >>, error_message |-> "Permission Denied", raises |-> FALSE]
    ELSE IF exc = "FileNotFoundError"
    THEN [items |-> << >>, error_message |-> "File Not Found", raises |-> FALSE]
    ELSE [items |-> << >>, error_message |-> None, raises |-> TRUE]

-----------------------------------------------------------------------------
(* config.py: the content policy read by output_generator.py               *)

IGNORE_DIRS == {"node_modules"}
IGNORE_FILES == {"yarn.lock"}
\* ".py", ".js"
TARGET_EXTENSIONS == {<<46, 112, 121>>, <<46, 106, 115>>}
\* ".lock"
IGNORE_EXTENSIONS == {<<46, 108, 111, 99, 107>>}
MAX_FILE_SIZE_BYTES == 100

-----------------------------------------------------------------------------
(* What the file system answers about the files.                           *)

\* os.path.getsize
getsize(p) ==
    CASE p = SubB -> 0
      [] p = Makefile -> 0
      [] p = LibC -> 200
      [] OTHER -> 10

\* the orders in which the system may hand out the entries of a directory
ScandirOrders == {"asc", "desc"}

\* what the system does during one generation: the order of directory entries,
\* the files whose open() or read() raises (permission denied) and the files whose
\* os.path.getsize raises (vanished after the walk listed them)
GenEnvs == {[ord |-> "asc", unreadable |-> {}, vanished |-> {}],
            [ord |-> "desc", unreadable |-> {}, vanished |-> {}],
            [ord |-> "asc", unreadable |-> {APy}, vanished |-> {LibC}]}

Reverse(s) == [i \in 1..Len(s) |-> s[Len(s) + 1 - i]]

\* os.scandir(path) as os.walk sees it: the entries in the system's order
Scans == [p \in Dirs |-> SortSet(listdir(p), NameRank)] @@ << >>
scandir(path, ord) ==
    IF ord = "asc" THEN Scans[path] ELSE Reverse(Scans[path])

\* sorted(names)
sorted_names(names) == SortSet({names[i] : i \in 1..Len(names)}, NameRank)

\* os.path.relpath(p, base) as the sequence of its components
relpath(p, base) ==
    LET common == CHOOSE k \in 0..Len(base) :
                     /\ k <= Len(p)
                     /\ SubSeq(p, 1, k) = SubSeq(base, 1, k)
                     /\ \A j \in (k + 1)..Len(base) :
                           j > Len(p) \/ SubSeq(p, 1, j) # SubSeq(base, 1, j)
        ups == [i \in 1..(Len(base) - common) |-> ".."]
        rest == SubSeq(p, common + 1, Len(p))
    IN IF ups \o rest = << >> THEN <<".">> ELSE ups \o rest

\* os.path.splitext(p)[1].lower(): the extension of the last component
splitext_lower(p) ==
    LET c == Chars(basename(p))
        dots == {i \in 1..Len(c) : c[i] = Dot}
    IN IF dots = {} THEN << >>
       ELSE LET d == CHOOSE i \in dots : \A j \in dots : j <= i
            IN IF \E j \in 1..(d - 1) : c[j] # Dot
               THEN StrLower(SubSeq(c, d, Len(c)))
               ELSE << >>

Extensions == [p \in Files |-> splitext_lower(p)] @@ << >>
file_ext(p) == Extensions[p]

-----------------------------------------------------------------------------
(* output_generator.py                                                     *)

\* variant: the walk looks for an exclusion above the path only, not at the path itself
RECURSIVE is_path_excluded_for_generation_AboveOnly(_, _, _)
is_path_excluded_for_generation_AboveOnly(path_segment, root_path, exclusions) ==
    IF path_segment = root_path THEN FALSE
    ELSE LET parent_segment == dirname(path_segment) IN
         IF parent_segment = path_segment THEN FALSE
         ELSE IF parent_segment \in exclusions THEN TRUE
         ELSE is_path_excluded_for_generation_AboveOnly(parent_segment, root_path, exclusions)

\* lines 16-34
RECURSIVE is_path_excluded_for_generation(_, _, _)
is_path_excluded_for_generation(path_segment, root_path, exclusions) ==
    IF path_segment \in exclusions THEN TRUE
    ELSE IF path_segment = root_path THEN FALSE
    ELSE LET parent_segment == dirname(path_segment) IN
         IF parent_segment = path_segment THEN FALSE
         ELSE IF ~PathStartsWith(path_segment, root_path) THEN FALSE
         ELSE is_path_excluded_for_generation(parent_segment, root_path, exclusions)

\* a line of the COMBINED PROJECT STRUCTURE section: the text is indent * "    ",
\* then the name (for a root: its path relative to the run directory), then "/"
\* for a directory; path is the entry the line stands for and root the selection
\* root in whose turn of the loop over the roots the line is written
Line(kind, indent, text, is_dir, path, root) ==
    [kind |-> kind, indent |-> indent, text |-> text, is_dir |-> is_dir, path |-> path,
     root |-> root]

\* structure_output.append(line); paths_added_to_structure_output.add(path)
Emit(st, line) ==
    [st EXCEPT !.structure_output = Append(@, line),
               !.paths_added = @ \cup {line.path}]

\* lines 114-118: hidden and ignored directory names are pruned from the walk
KeepDirName(d) == ~IsHiddenName(d) /\ d \notin IGNORE_DIRS

\* line 167: hidden and ignored file names are skipped
SkipFileName(f) == IsHiddenName(f) \/ f \in IGNORE_FILES

\* lines 155-164: one line per sub-directory not listed before
RECURSIVE EmitDirs(_, _, _, _, _)
EmitDirs(st, names, top, indent, sel_root_abs) ==
    IF names = << >> THEN st
    ELSE LET norm_dir_full_path_abs == join(top, Head(names))
             st1 == IF norm_dir_full_path_abs \notin st.paths_added
                    THEN Emit(st, Line("dir", indent, <<Head(names)>>, TRUE,
                                       norm_dir_full_path_abs, sel_root_abs))
                    ELSE st
         IN EmitDirs(st1, Tail(names), top, indent, sel_root_abs)

\* lines 166-186: one line per file not listed before; every file goes to the content set
RECURSIVE EmitFiles(_, _, _, _, _, _)
EmitFiles(st, names, top, indent, sel_root_abs, exclusions) ==
    IF names = << >> THEN st
    ELSE LET norm_file_full_path_abs == join(top, Head(names))
             st1 ==
                IF SkipFileName(Head(names)) THEN st
                ELSE IF is_path_excluded_for_generation(norm_file_full_path_abs,
                                                         sel_root_abs, exclusions)
                THEN st
                ELSE LET st0 == IF norm_file_full_path_abs \notin st.paths_added
                                THEN Emit(st, Line("file", indent, <<Head(names)>>, FALSE,
                                                   norm_file_full_path_abs, sel_root_abs))
                                ELSE st
                     IN [st0 EXCEPT !.all_files = @ \cup {norm_file_full_path_abs}]
         IN EmitFiles(st1, Tail(names), top, indent, sel_root_abs, exclusions)

\* lines 109-186: os.walk(sel_root_abs, topdown=True) with the body of the for loop;
\* WalkStep is one (current_walk_root, dirs, files) triple, WalkDirs the descent
\* into the directories left in dirs, in the order the system listed them
RECURSIVE WalkStep(_, _, _, _, _), WalkDirs(_, _, _, _, _, _)
WalkStep(st, current_walk_root_abs, sel_root_abs, exclusions, ord) ==
    LET entries == scandir(current_walk_root_abs, ord)
        IsDirName(n) == isdir(join(current_walk_root_abs, n))
        IsFileName(n) == ~isdir(join(current_walk_root_abs, n))
        NotExcluded(d) == ~is_path_excluded_for_generation(
                              join(current_walk_root_abs, d), sel_root_abs, exclusions)
        dirs == SelectSeq(SelectSeq(SelectSeq(entries, IsDirName), KeepDirName),
                          NotExcluded)
        files == SelectSeq(entries, IsFileName)
        depth == IF current_walk_root_abs # sel_root_abs
                    /\ PathStartsWith(current_walk_root_abs, sel_root_abs)
                 THEN Len(relpath(current_walk_root_abs, sel_root_abs))
                 ELSE 0
        st1 == IF current_walk_root_abs # sel_root_abs
                  /\ current_walk_root_abs \notin st.paths_added
               THEN Emit(st, Line("walk_root", depth, <<basename(current_walk_root_abs)>>,
                                  TRUE, current_walk_root_abs, sel_root_abs))
               ELSE st
        st2 == EmitDirs(st1, sorted_names(dirs), current_walk_root_abs, depth + 1,
                        sel_root_abs)
        st3 == EmitFiles(st2, sorted_names(files), current_walk_root_abs, depth + 1,
                         sel_root_abs, exclusions)
    IN WalkDirs(st3, dirs, current_walk_root_abs, sel_root_abs, exclusions, ord)

WalkDirs(st, dirs, top, sel_root_abs, exclusions, ord) ==
    IF dirs = << >> THEN st
    ELSE WalkDirs(WalkStep(st, join(top, Head(dirs)), sel_root_abs, exclusions, ord),
                  Tail(dirs), top, sel_root_abs, exclusions, ord)

\* variant: the line of a root is written without asking whether it was listed before
RootLine_NoDedup(st, sel_root_abs) ==
    Emit(st, Line("root", 0, relpath(sel_root_abs, base_run_directory),
                  isdir(sel_root_abs), sel_root_abs, sel_root_abs))

\* lines 92-104: the line of a selection root
RootLine(st, sel_root_abs) ==
    IF sel_root_abs \notin st.paths_added
    THEN LET is_sub_path_of_other_root ==
                 \E processed_r_abs \in st.paths_added :
                     isdir(processed_r_abs)
                     /\ PathStartsWithSep(sel_root_abs, processed_r_abs)
         IN IF ~is_sub_path_of_other_root
            THEN Emit(st, Line("root", 0, relpath(sel_root_abs, base_run_directory),
                               isdir(sel_root_abs), sel_root_abs, sel_root_abs))
            ELSE [st EXCEPT !.paths_added = @ \cup {sel_root_abs}]
    ELSE st

\* lines 83-186: the loop over sorted(selection_roots)
RECURSIVE ProcessRoots(_, _, _, _)
ProcessRoots(st, sorted_roots, exclusions, ord) ==
    IF sorted_roots = << >> THEN st
    ELSE LET sel_root_abs == Head(sorted_roots)
             st1 == RootLine(st, sel_root_abs)
             st2 == IF isfile(sel_root_abs)
                    THEN [st1 EXCEPT !.all_files = @ \cup {sel_root_abs}]
                    ELSE IF isdir(sel_root_abs)
                    THEN WalkStep(st1, sel_root_abs, sel_root_abs, exclusions, ord)
                    ELSE st1
         IN ProcessRoots(IF sel_root_abs \in exclusions THEN st ELSE st2,
                         Tail(sorted_roots), exclusions, ord)

\* lines 197-246: the block of one file in the File Contents section, or no block,
\* and what the file adds to files_content_included_count
ContentBlocks(file_path_abs_orig, env) ==
    LET ext == file_ext(file_path_abs_orig)
        display_path_rel == relpath(file_path_abs_orig, base_run_directory)
        Block(outcome, included) ==
            [blocks |-> <<[path |-> file_path_abs_orig, display |-> display_path_rel,
                           outcome |-> outcome]>>,
             included |-> included]
    IN IF ext \in TARGET_EXTENSIONS /\ ext \notin IGNORE_EXTENSIONS
       THEN IF file_path_abs_orig \in env.vanished THEN Block("ERROR", 0)
            ELSE IF getsize(file_path_abs_orig) > MAX_FILE_SIZE_BYTES THEN Block("SKIPPED", 0)
            ELSE IF getsize(file_path_abs_orig) = 0 THEN Block("EMPTY", 1)
            ELSE IF file_path_abs_orig \in env.unreadable THEN Block("ERROR", 0)
            ELSE Block("NORMAL", 1)
       ELSE [blocks |-> << >>, included |-> 0]

\* variant: the first file whose block is an error block ends the section
RECURSIVE ContentSection_StopsAtError(_, _)
ContentSection_StopsAtError(sorted_files, env) ==
    IF sorted_files = << >> THEN [blocks |-> << >>, count |-> 0]
    ELSE LET one == ContentBlocks(Head(sorted_files), env)
             rest == IF one.blocks # << >> /\ one.blocks[1].outcome = "ERROR"
                     THEN [blocks |-> << >>, count |-> 0]
                     ELSE ContentSection_StopsAtError(Tail(sorted_files), env)
         IN [blocks |-> one.blocks \o rest.blocks, count |-> one.included + rest.count]

\* lines 196-246: the loop over sorted(all_files_to_process_for_content)
RECURSIVE ContentSection(_, _)
ContentSection(sorted_files, env) ==
    IF sorted_files = << >> THEN [blocks |-> << >>, count |-> 0]
    ELSE LET one == ContentBlocks(Head(sorted_files), env)
             rest == ContentSection(Tail(sorted_files), env)
         IN [blocks |-> one.blocks \o rest.blocks, count |-> one.included + rest.count]

\* a part of the text of the artifact: what it is and, for an entry, its path
Part(tag, path) == [part |-> tag, path |-> path]

PartsOf(tag, sorted_paths) == [i \in 1..Len(sorted_paths) |-> Part(tag, sorted_paths[i])]

\* lines 49-81: what structure_output holds before the loop over the roots
HeaderParts(roots, exclusions) ==
    <<Part("PREAMBLE", NoPath), Part("TITLE", NoPath), Part("ROOTS_HEADER", NoPath)>>
    \o (IF roots = {} THEN <<Part("NO_ROOTS_NOTE", NoPath)>> ELSE << >>)
    \o PartsOf("ROOT_ENTRY", SortSet(roots, PathRank))
    \o (IF exclusions # {}
        THEN <<Part("EXCLUSIONS_HEADER", NoPath)>>
             \o PartsOf("EXCLUSION_ENTRY", SortSet(exclusions, PathRank))
        ELSE << >>)
    \o <<Part("STRUCTURE_HEADER", NoPath)>>
    \o (IF roots = {} THEN <<Part("EMPTY_STRUCTURE_NOTE", NoPath)>> ELSE << >>)

\* lines 189-195 and the blocks: content_output
ContentParts(all_files, blocks) ==
    <<Part("CONTENTS_HEADER", NoPath)>>
    \o (IF all_files = {} THEN <<Part("NO_FILES_NOTE", NoPath)>>
        ELSE [k \in 1..Len(blocks) |-> Part("BLOCK", blocks[k].path)])

\* lines 249-250: summary
SummaryParts == <<Part("END_MARKER", NoPath)>>

\* variant: the file contents are written before the structure lines
WrittenParts_ContentFirst(structure_parts, content_parts, summary_parts) ==
    content_parts \o structure_parts \o summary_parts

\* lines 253-256: the three writes to the output file
WrittenParts(structure_parts, content_parts, summary_parts) ==
    structure_parts \o content_parts \o summary_parts

generate_output_from_selection(roots, exclusions, env) ==
    LET st0 == [structure_output |-> << >>, paths_added |-> {}, all_files |-> {}]
        st == ProcessRoots(st0, SortSet(roots, PathRank), exclusions, env.ord)
        content == ContentSection(SortSet(st.all_files, PathRank), env)
        tree_parts == [i \in 1..Len(st.structure_output) |->
                          Part("TREE_LINE", st.structure_output[i].path)]
    IN [written |-> TRUE,
        structure |-> st.structure_output,
        files |-> st.all_files,
        blocks |-> content.blocks,
        count |-> content.count,
        parts |-> WrittenParts(HeaderParts(roots, exclusions) \o tree_parts,
                               ContentParts(st.all_files, content.blocks),
                               SummaryParts)]

NoArtifact == [written |-> FALSE, structure |-> << >>, files |-> {}, blocks |-> << >>,
               count |-> 0, parts |-> << >>]

\* the paths that a listing can show, hence the paths that roots and exclusions
\* can hold
ListedPaths == UNION {{Listings[d].items[i].path : i \in 1..Len(Listings[d].items)}
                         : d \in Dirs}

\* The overviews of the selections the loop can hold are tabulated once.  A
\* selection over disjoint sets is numbered by one base-3 digit per listed path
\* (0 unmarked, 1 root, 2 exclusion) and the environment.
ListedSeq == SortSet(ListedPaths, PathRank)
GenEnvSeq == SortSet(GenEnvs, [e \in GenEnvs |->
                 (IF e.ord = "asc" THEN 0 ELSE 1) + 2 * Cardinality(e.unreadable)])
Pow3 == [k \in 0..Len(ListedSeq) |-> 3 ^ k]
Weight == [p \in ListedPaths |->
             Pow3[(CHOOSE k \in 1..Len(ListedSeq) : ListedSeq[k] = p) - 1]] @@ << >>
EnvIndex == [e \in GenEnvs |-> CHOOSE k \in 1..Len(GenEnvSeq) : GenEnvSeq[k] = e] @@ << >>

RECURSIVE SumWeights(_)
SumWeights(S) ==
    IF S = {} THEN 0
    ELSE LET p == CHOOSE q \in S : TRUE IN Weight[p] + SumWeights(S \ {p})

SelectionIndex(roots, exclusions, env) ==
    (SumWeights(roots) + 2 * SumWeights(exclusions)) * Len(GenEnvSeq) + EnvIndex[env]

MarkedAs(code, digit) ==
    {ListedSeq[k] : k \in {k \in 1..Len(ListedSeq) : (code \div Pow3[k - 1]) % 3 = digit}}

\* the number of marked paths of a selection number
RECURSIVE Marks(_)
Marks(code) ==
    IF code = 0 THEN 0
    ELSE (IF code % 3 = 0 THEN 0 ELSE 1) + Marks(code \div 3)

GeneratedOutputs ==
    [n \in 1..(Pow3[Len(ListedSeq)] * Len(GenEnvSeq)) |->
        LET code == (n - 1) \div Len(GenEnvSeq)
            env == GenEnvSeq[((n - 1) % Len(GenEnvSeq)) + 1]
        IN IF Marks(code) <= MaxMarked
           THEN generate_output_from_selection(MarkedAs(code, 1), MarkedAs(code, 2), env)
           ELSE NoArtifact] \o << >>

Generated(roots, exclusions, env) ==
    IF /\ roots \cap exclusions = {}
       /\ (roots \cup exclusions) \subseteq ListedPaths
       /\ Cardinality(roots) + Cardinality(exclusions) <= MaxMarked
    THEN GeneratedOutputs[SelectionIndex(roots, exclusions, env)]
    ELSE generate_output_from_selection(roots, exclusions, env)

-----------------------------------------------------------------------------
(* tui.py: tui_main                                                        *)

NoStatus == [kind |-> "none", count |-> 0]
NoGeneration ==
    [written |-> FALSE, env |-> [ord |-> "none", unreadable |-> {}, vanished |-> {}]]

\* the file written in this iteration: the call leaves the selection as it found
\* it, so the file is the overview of the current selection in the call's
\* environment
generated ==
    IF generation.written
    THEN Generated(selection_roots, explicit_exclusions, generation.env)
    ELSE NoArtifact

NoHist == [op |-> "init", path |-> Root, roots |-> {}, excl |-> {},
           twice |-> FALSE, roots0 |-> {}, excl0 |-> {}, result |-> FALSE,
           raised |-> "none"]

\* variant: the clamp without the test for an empty listing
ClampIdx_NoEmptyTest(idx, its) ==
    IF idx >= Len(its) THEN Len(its) - 1
    ELSE IF idx < 0 THEN 0
    ELSE idx

\* lines 423-428: the cursor is brought back into the listing after every key
ClampIdx(idx, its) ==
    IF its = << >> THEN 0
    ELSE IF idx >= Len(its) THEN Len(its) - 1
    ELSE IF idx < 0 THEN 0
    ELSE idx

Init ==
    /\ pc = "loop"
    /\ current_path = initial_path
    /\ items = get_dir_contents(initial_path, "none").items
    /\ error_msg = get_dir_contents(initial_path, "none").error_message
    /\ current_selection_idx = 0
    /\ selection_roots = {}
    /\ explicit_exclusions = {}
    /\ status_message = NoStatus
    /\ generation = NoGeneration
    /\ last = NoHist

\* ACTION_NAVIGATE_UP
NavigateUp ==
    /\ pc = "loop"
    /\ current_selection_idx' =
          ClampIdx(IF items # << >>
                   THEN (current_selection_idx - 1 + Len(items)) % Len(items)
                   ELSE current_selection_idx, items)
    /\ status_message' = NoStatus
    /\ error_msg' = None
    /\ generation' = NoGeneration
    /\ last' = [NoHist EXCEPT !.op = "up"]
    /\ UNCHANGED <<pc, current_path, items, selection_roots, explicit_exclusions>>

\* ACTION_NAVIGATE_DOWN
NavigateDown ==
    /\ pc = "loop"
    /\ current_selection_idx' =
          ClampIdx(IF items # << >>
                   THEN (current_selection_idx + 1) % Len(items)
                   ELSE current_selection_idx, items)
    /\ status_message' = NoStatus
    /\ error_msg' = None
    /\ generation' = NoGeneration
    /\ last' = [NoHist EXCEPT !.op = "down"]
    /\ UNCHANGED <<pc, current_path, items, selection_roots, explicit_exclusions>>

\* ACTION_ENTER_DIRECTORY; an exception that get_dir_contents does not catch leaves
\* tui_main
EnterDirectory ==
    /\ pc = "loop"
    /\ IF /\ items # << >>
          /\ 0 <= current_selection_idx /\ current_selection_idx < Len(items)
          /\ items[current_selection_idx + 1].is_dir
       THEN \E exc \in listdir_raises(items[current_selection_idx + 1].path) :
            LET new_path_candidate == items[current_selection_idx + 1].path
                res == get_dir_contents(new_path_candidate, exc)
            IN /\ last' = [NoHist EXCEPT !.op = "enter", !.raised = exc]
               /\ IF res.raises
                  THEN /\ pc' = "crashed"
                       /\ error_msg' = None
                       /\ UNCHANGED <<current_path, items, current_selection_idx>>
                  ELSE IF res.error_message = None
                  THEN /\ pc' = pc
                       /\ current_path' = new_path_candidate
                       /\ items' = res.items
                       /\ current_selection_idx' = ClampIdx(0, res.items)
                       /\ error_msg' = None
                  ELSE /\ pc' = pc
                       /\ error_msg' = res.error_message
                       /\ current_selection_idx' = ClampIdx(current_selection_idx, items)
                       /\ UNCHANGED <<current_path, items>>
       ELSE /\ pc' = pc
            /\ last' = [NoHist EXCEPT !.op = "enter"]
            /\ error_msg' = None
            /\ current_selection_idx' = ClampIdx(current_selection_idx, items)
            /\ UNCHANGED <<current_path, items>>
    /\ status_message' = NoStatus
    /\ generation' = NoGeneration
    /\ UNCHANGED <<selection_roots, explicit_exclusions>>

\* ACTION_PARENT_DIRECTORY
ParentDirectory ==
    /\ pc = "loop"
    /\ LET parent_path == dirname(current_path) IN
       IF parent_path # current_path
       THEN \E exc \in listdir_raises(parent_path) :
            LET res == get_dir_contents(parent_path, exc) IN
            /\ last' = [NoHist EXCEPT !.op = "parent", !.raised = exc]
            /\ current_path' = parent_path
            /\ IF res.raises
               THEN /\ pc' = "crashed"
                    /\ error_msg' = None
                    /\ UNCHANGED <<items, current_selection_idx>>
               ELSE /\ pc' = pc
                    /\ items' = res.items
                    /\ error_msg' = res.error_message
                    /\ current_selection_idx' = ClampIdx(0, res.items)
       ELSE /\ pc' = pc
            /\ last' = [NoHist EXCEPT !.op = "parent"]
            /\ error_msg' = None
            /\ current_selection_idx' = ClampIdx(current_selection_idx, items)
            /\ UNCHANGED <<current_path, items>>
    /\ status_message' = NoStatus
    /\ generation' = NoGeneration
    /\ UNCHANGED <<selection_roots, explicit_exclusions>>

\* variant: a demoted root is turned into an exclusion
toggle_DemoteExcludes(item_path, roots, exclusions) ==
    IF is_effectively_selected(item_path, roots, exclusions)
    THEN IF item_path \in roots
         THEN [roots |-> roots \ {item_path}, exclusions |-> exclusions \cup {item_path}]
         ELSE [roots |-> roots, exclusions |-> exclusions \cup {item_path}]
    ELSE IF item_path \in exclusions
         THEN [roots |-> roots, exclusions |-> exclusions \ {item_path}]
         ELSE [roots |-> roots \cup {item_path}, exclusions |-> exclusions \ {item_path}]

\* variant: an implicitly selected path is excluded at its parent
toggle_ExcludesParent(item_path, roots, exclusions) ==
    IF is_effectively_selected(item_path, roots, exclusions)
    THEN IF item_path \in roots
         THEN [roots |-> roots \ {item_path}, exclusions |-> exclusions \ {item_path}]
         ELSE [roots |-> roots, exclusions |-> exclusions \cup {dirname(item_path)}]
    ELSE IF item_path \in exclusions
         THEN [roots |-> roots, exclusions |-> exclusions \ {item_path}]
         ELSE [roots |-> roots \cup {item_path}, exclusions |-> exclusions \ {item_path}]

\* variant: an excluded path is made a root when its exclusion is lifted
toggle_UnexcludeAddsRoot(item_path, roots, exclusions) ==
    IF is_effectively_selected(item_path, roots, exclusions)
    THEN IF item_path \in roots
         THEN [roots |-> roots \ {item_path}, exclusions |-> exclusions \ {item_path}]
         ELSE [roots |-> roots, exclusions |-> exclusions \cup {item_path}]
    ELSE [roots |-> roots \cup {item_path}, exclusions |-> exclusions \ {item_path}]

\* variant: an unselected path is made a root without a look at the exclusions
toggle_RootKeepsExclusion(item_path, roots, exclusions) ==
    IF is_effectively_selected(item_path, roots, exclusions)
    THEN IF item_path \in roots
         THEN [roots |-> roots \ {item_path}, exclusions |-> exclusions \ {item_path}]
         ELSE [roots |-> roots, exclusions |-> exclusions \cup {item_path}]
    ELSE [roots |-> roots \cup {item_path}, exclusions |-> exclusions]

\* variant: a demoted root takes the exclusions below it along
toggle_DemoteClearsBelow(item_path, roots, exclusions) ==
    IF is_effectively_selected(item_path, roots, exclusions)
    THEN IF item_path \in roots
         THEN [roots |-> roots \ {item_path},
               exclusions |-> {e \in exclusions : ~IsAncestorOrSelf(item_path, e)}]
         ELSE [roots |-> roots, exclusions |-> exclusions \cup {item_path}]
    ELSE IF item_path \in exclusions
         THEN [roots |-> roots, exclusions |-> exclusions \ {item_path}]
         ELSE [roots |-> roots \cup {item_path}, exclusions |-> exclusions \ {item_path}]

\* lines 381-395: the new (roots, exclusions) after a toggle of item_path
toggle(item_path, roots, exclusions) ==
    IF is_effectively_selected(item_path, roots, exclusions)
    THEN IF item_path \in roots
         THEN [roots |-> roots \ {item_path}, exclusions |-> exclusions \ {item_path}]
         ELSE [roots |-> roots, exclusions |-> exclusions \cup {item_path}]
    ELSE IF item_path \in exclusions
         THEN [roots |-> roots, exclusions |-> exclusions \ {item_path}]
         ELSE [roots |-> roots \cup {item_path}, exclusions |-> exclusions \ {item_path}]

\* ACTION_TOGGLE_SELECT
ToggleSelect ==
    /\ pc = "loop"
    /\ items # << >>
    /\ 0 <= current_selection_idx /\ current_selection_idx < Len(items)
    /\ LET item_path == items[current_selection_idx + 1].path
           new == toggle(item_path, selection_roots, explicit_exclusions)
           twice == last.op = "toggle" /\ last.path = item_path
       IN /\ Cardinality(new.roots) + Cardinality(new.exclusions) <= MaxMarked
          /\ selection_roots' = new.roots
          /\ explicit_exclusions' = new.exclusions
          /\ last' = [op |-> "toggle", path |-> item_path,
                      roots |-> selection_roots, excl |-> explicit_exclusions,
                      twice |-> twice,
                      roots0 |-> IF twice THEN last.roots ELSE {},
                      excl0 |-> IF twice THEN last.excl ELSE {},
                      result |-> FALSE, raised |-> "none"]
    /\ current_selection_idx' = ClampIdx(current_selection_idx, items)
    /\ status_message' = NoStatus
    /\ error_msg' = None
    /\ generation' = NoGeneration
    /\ UNCHANGED <<pc, current_path, items>>

\* output_generator.py lines 252-259: the status string returned; the write of
\* output.txt may fail (IOError)
generate_status(out, write_ok) ==
    IF write_ok THEN [kind |-> "generated", count |-> out.count]
    ELSE [kind |-> "write_error", count |-> 0]

\* ACTION_GENERATE_OUTPUT, with the refresh of the listing that follows the call
GenerateOutput ==
    /\ pc = "loop"
    /\ IF selection_roots = {}
       THEN /\ pc' = pc
            /\ status_message' = [kind |-> "no_roots", count |-> 0]
            /\ generation' = NoGeneration
            /\ error_msg' = None
            /\ current_selection_idx' = ClampIdx(current_selection_idx, items)
            /\ last' = [NoHist EXCEPT !.op = "generate"]
            /\ UNCHANGED items
       ELSE \E env \in GenEnvs, write_ok \in BOOLEAN, exc \in listdir_raises(current_path) :
            LET out == Generated(selection_roots, explicit_exclusions, env)
                res == get_dir_contents(current_path, exc)
            IN /\ generation' = IF write_ok THEN [written |-> TRUE, env |-> env]
                                              ELSE NoGeneration
               /\ status_message' = generate_status(out, write_ok)
               /\ last' = [NoHist EXCEPT !.op = "generate",
                                         !.roots = selection_roots,
                                         !.excl = explicit_exclusions,
                                         !.result = write_ok,
                                         !.raised = exc]
               /\ IF res.raises
                  THEN /\ pc' = "crashed"
                       /\ error_msg' = None
                       /\ UNCHANGED <<items, current_selection_idx>>
                  ELSE /\ pc' = pc
                       /\ items' = res.items
                       /\ error_msg' = res.error_message
                       /\ current_selection_idx' = ClampIdx(current_selection_idx, res.items)
    /\ UNCHANGED <<current_path, selection_roots, explicit_exclusions>>

\* ACTION_QUIT
Quit ==
    /\ pc = "loop"
    /\ pc' = "done"
    /\ status_message' = NoStatus
    /\ error_msg' = None
    /\ generation' = NoGeneration
    /\ last' = [NoHist EXCEPT !.op = "quit"]
    /\ UNCHANGED <<current_path, items, current_selection_idx, selection_roots,
                   explicit_exclusions>>

Next ==
    \/ NavigateUp
    \/ NavigateDown
    \/ EnterDirectory
    \/ ParentDirectory
    \/ ToggleSelect
    \/ GenerateOutput
    \/ Quit

Spec == Init /\ [][Next]_vars

-----------------------------------------------------------------------------
(* The resolver as a function of its arguments: any roots and exclusions   *)
(* over the paths below, any item.                                         *)

\* at most this many paths are in roots and exclusions together
MaxFnMarked == 4

FnPaths == Paths \ {GitHead, YarnLock, Makefile}

InitFn ==
    /\ pc = "fn"
    /\ selection_roots \in SUBSET FnPaths
    /\ explicit_exclusions \in SUBSET FnPaths
    /\ Cardinality(selection_roots) + Cardinality(explicit_exclusions) <= MaxFnMarked
    /\ current_path = initial_path
    /\ items = << >>
    /\ error_msg = None
    /\ current_selection_idx = 0
    /\ status_message = NoStatus
    /\ generation = NoGeneration
    /\ last = NoHist

\* one call is_effectively_selected(item_path, selection_roots, explicit_exclusions)
Resolve(item_path) ==
    /\ pc = "fn"
    /\ last.op = "init"
    /\ last' = [NoHist EXCEPT
                  !.op = "resolve",
                  !.path = item_path,
                  !.roots = selection_roots,
                  !.excl = explicit_exclusions,
                  !.result = is_effectively_selected(item_path, selection_roots,
                                                     explicit_exclusions)]
    /\ UNCHANGED <<pc, current_path, items, current_selection_idx, selection_roots,
                   explicit_exclusions, status_message, error_msg, generation>>

NextFn == \E item_path \in Paths : Resolve(item_path)

SpecFn == InitFn /\ [][NextFn]_vars

-----------------------------------------------------------------------------
(* Notions the properties are stated in                                    *)

\* the roots at or above p, and the nearest of them
EnclosingRoots(p, roots) == {r \in roots : IsAncestorOrSelf(r, p)}
NearestRoot(p, roots) ==
    CHOOSE r \in EnclosingRoots(p, roots) :
        \A r2 \in EnclosingRoots(p, roots) : Len(r2) <= Len(r)

Resolved == last.op = "resolve"
Toggled == last.op = "toggle"

-----------------------------------------------------------------------------
(* Properties of is_effectively_selected                                   *)

\* C1: a path that is in roots is effectively selected, whatever exclusions holds,
\* also when the path itself or one of its ancestors is in exclusions
C1_RootAlwaysSelected ==
    (Resolved /\ last.path \in selection_roots) => last.result = TRUE

\* a root that is itself excluded and has an excluded ancestor was resolved
C1_Witness ==
    /\ Resolved
    /\ last.path \in selection_roots
    /\ last.path \in explicit_exclusions
    /\ \E a \in explicit_exclusions : IsProperAncestor(a, last.path)
    /\ last.result = TRUE

\* C2: a path with no root at or above it is not effectively selected, whatever
\* exclusions holds
C2_NoEnclosingRootUnselected ==
    (Resolved /\ EnclosingRoots(last.path, selection_roots) = {}) => last.result = FALSE

\* a path without enclosing root was resolved while roots and exclusions are not empty
C2_Witness ==
    /\ Resolved
    /\ EnclosingRoots(last.path, selection_roots) = {}
    /\ selection_roots # {}
    /\ last.path \in explicit_exclusions
    /\ last.result = FALSE

\* C3: when the nearest enclosing root N of a path is a proper ancestor of it, the
\* path is effectively selected exactly when no path on the chain from it up to
\* but not including N is in exclusions
C3_NearestRootRule ==
    (Resolved
       /\ EnclosingRoots(last.path, selection_roots) # {}
       /\ last.path \notin selection_roots)
    => (last.result =
          (ChainBelow(last.path, NearestRoot(last.path, selection_roots))
              \cap explicit_exclusions = {}))

\* a path was resolved as selected below a nested root N although N lies below an
\* exclusion that is operative under an outer root, and N itself is excluded
C3_Witness ==
    /\ Resolved
    /\ last.path \notin selection_roots
    /\ last.result = TRUE
    /\ \E n \in selection_roots, outer \in selection_roots :
          /\ n = NearestRoot(last.path, selection_roots)
          /\ IsProperAncestor(outer, n)
          /\ n \in explicit_exclusions
          /\ \E e \in explicit_exclusions : IsProperAncestor(outer, e) /\ IsProperAncestor(e, n)

-----------------------------------------------------------------------------
(* Properties of the toggle                                                *)

\* the Unselected state of the transition table: the path is not effectively
\* selected and is not an excluded path below a root (the Explicitly-excluded
\* state); an exclusion on a path with no root above it is a stale one
UnselectedState(p, roots, excl) ==
    /\ ~is_effectively_selected(p, roots, excl)
    /\ ~(p \in excl /\ EnclosingRoots(p, roots) # {})

\* C4 as claimed: a toggle of a path in the Unselected state makes the path a root:
\* afterwards it is in roots, not in exclusions, and effectively selected, also
\* when the path carried a stale exclusion
C4_UnselectedBecomesRoot ==
    (Toggled /\ UnselectedState(last.path, last.roots, last.excl))
    => /\ last.path \in selection_roots
       /\ last.path \notin explicit_exclusions
       /\ is_effectively_selected(last.path, selection_roots, explicit_exclusions)

\* C5 as claimed: two toggles in a row of a path that was in the Unselected state
\* leave it not selected, roots as they were, and exclusions as they were except
\* possibly for the path itself
C5_DoubleToggleRestores ==
    (Toggled /\ last.twice /\ UnselectedState(last.path, last.roots0, last.excl0))
    => /\ ~is_effectively_selected(last.path, selection_roots, explicit_exclusions)
       /\ selection_roots = last.roots0
       /\ explicit_exclusions \in {last.excl0, last.excl0 \ {last.path}}

\* C6: a toggle of a path that is in roots takes it out of roots, leaves it in
\* neither set and changes nothing else; below an outer root it stays effectively
\* selected exactly when no exclusion lies between it and the nearest such root
C6_DemotedRootLeavesBothSets ==
    (Toggled /\ last.path \in last.roots)
    => /\ selection_roots = last.roots \ {last.path}
       /\ explicit_exclusions = last.excl \ {last.path}
       /\ last.path \notin selection_roots
       /\ last.path \notin explicit_exclusions
       /\ is_effectively_selected(last.path, selection_roots, explicit_exclusions)
            = (/\ EnclosingRoots(last.path, selection_roots) # {}
               /\ ChainBelow(last.path, NearestRoot(last.path, selection_roots))
                     \cap explicit_exclusions = {})

\* a root below an outer root was demoted and is still selected through the outer root
C6_Witness ==
    /\ Toggled
    /\ last.path \in last.roots
    /\ \E outer \in selection_roots : IsProperAncestor(outer, last.path)
    /\ last.path \notin explicit_exclusions
    /\ is_effectively_selected(last.path, selection_roots, explicit_exclusions)

\* the descendants of p (p included) with no root of their own at or below p's children
Covered(p, roots) ==
    {q \in Paths : IsAncestorOrSelf(p, q) /\ ChainBelow(q, p) \cap roots = {}}

\* C7: a toggle of a path that is effectively selected and not in roots adds exactly
\* that path to exclusions and leaves roots alone; afterwards neither the path nor
\* any descendant without a nearer root of its own is effectively selected
C7_ImplicitBecomesExcluded ==
    (Toggled
       /\ last.path \notin last.roots
       /\ is_effectively_selected(last.path, last.roots, last.excl))
    => /\ explicit_exclusions = last.excl \cup {last.path}
       /\ last.path \notin last.excl
       /\ selection_roots = last.roots
       /\ \A q \in Covered(last.path, selection_roots) :
             ~is_effectively_selected(q, selection_roots, explicit_exclusions)

\* a directory with descendants was excluded below a root
C7_Witness ==
    /\ Toggled
    /\ last.path \notin last.roots
    /\ is_effectively_selected(last.path, last.roots, last.excl)
    /\ last.path \in explicit_exclusions
    /\ Cardinality(Covered(last.path, selection_roots)) >= 3

\* C8 as claimed: a toggle of a path that is in exclusions and has a root above it
\* removes it from exclusions, leaves roots alone, and the path is effectively
\* selected afterwards
C8_UnexcludeSelects ==
    (Toggled
       /\ last.path \in last.excl
       /\ \E r \in last.roots : IsProperAncestor(r, last.path))
    => /\ explicit_exclusions = last.excl \ {last.path}
       /\ selection_roots = last.roots
       /\ is_effectively_selected(last.path, selection_roots, explicit_exclusions)

\* C8 as amended: a toggle of a path that is in exclusions, is not in roots and has
\* a root above it removes it from exclusions and leaves roots alone; afterwards the
\* path is effectively selected exactly when no other path between it and its
\* nearest enclosing root is in exclusions
C8_UnexcludeSelectsUnlessOuterExclusion ==
    (Toggled
       /\ last.path \in last.excl
       /\ last.path \notin last.roots
       /\ \E r \in last.roots : IsProperAncestor(r, last.path))
    => /\ explicit_exclusions = last.excl \ {last.path}
       /\ selection_roots = last.roots
       /\ is_effectively_selected(last.path, selection_roots, explicit_exclusions)
            = (ChainBelow(last.path, NearestRoot(last.path, selection_roots))
                  \cap explicit_exclusions = {})

\* an exclusion below a root was lifted and the path is selected again
C8_Witness ==
    /\ Toggled
    /\ last.path \in last.excl
    /\ last.path \notin last.roots
    /\ \E r \in last.roots : IsProperAncestor(r, last.path)
    /\ last.path \notin explicit_exclusions
    /\ is_effectively_selected(last.path, selection_roots, explicit_exclusions)

-----------------------------------------------------------------------------
(* Properties of the generated overview                                    *)

\* the name of the entry a line of the structure section stands for
LineEntryName(line) == basename(line.path)

IsIgnoredEntry(line) ==
    \/ IsHiddenName(LineEntryName(line))
    \/ line.is_dir /\ LineEntryName(line) \in IGNORE_DIRS
    \/ ~line.is_dir /\ LineEntryName(line) \in IGNORE_FILES

\* C9 as claimed: no line of the structure section names a hidden entry or an entry
\* with an ignored directory or file name, also when the entry is a selection root
C9_NoHiddenOrIgnoredLine ==
    LET out == generated
    IN out.written
       => \A i \in 1..Len(out.structure) : ~IsIgnoredEntry(out.structure[i])

\* C10: no path has more than one line in the structure section and no file has
\* more than one block in the File Contents section, also with nested roots
C10_NoDuplicates ==
    LET out == generated
    IN out.written
       => /\ \A i, j \in 1..Len(out.structure) :
                i # j => out.structure[i].path # out.structure[j].path
          /\ \A i, j \in 1..Len(out.blocks) :
                i # j => out.blocks[i].path # out.blocks[j].path

\* an overview was generated from nested roots, both walked, with a file in the
\* File Contents section that lies below both
C10_Witness ==
    LET out == generated
    IN /\ out.written
       /\ \E outer \in selection_roots, inner \in selection_roots :
             /\ IsProperAncestor(outer, inner)
             /\ isdir(inner)
             /\ \E i \in 1..Len(out.structure) : out.structure[i].path = inner
             /\ \E k \in 1..Len(out.blocks) :
                   IsProperAncestor(inner, out.blocks[k].path)

\* C11: every path with a line in the structure section and every file of the
\* content file set is effectively selected under the same roots and exclusions:
\* nothing at or below an excluded directory appears unless a nested root brings
\* it back
C11_ListedAndEmbeddedAreSelected ==
    LET out == generated
    IN out.written
       => /\ \A i \in 1..Len(out.structure) :
                is_effectively_selected(out.structure[i].path, selection_roots,
                                        explicit_exclusions)
          /\ \A f \in out.files :
                is_effectively_selected(f, selection_roots, explicit_exclusions)

\* an overview was generated with a directory excluded below a root: the overview
\* lists and embeds other entries of the root and nothing at or below the
\* exclusion, which has files below it
C11_Witness ==
    LET out == generated
    IN /\ out.written
       /\ out.files # {}
       /\ \E r \in selection_roots, e \in explicit_exclusions :
             /\ IsProperAncestor(r, e)
             /\ isdir(e)
             /\ \E f \in Files : IsProperAncestor(e, f) /\ ~IsHiddenName(basename(f))
             /\ \E i \in 1..Len(out.structure) :
                   IsProperAncestor(r, out.structure[i].path)
             /\ \A i \in 1..Len(out.structure) : ~IsAncestorOrSelf(e, out.structure[i].path)
             /\ \A f \in out.files : ~IsAncestorOrSelf(e, f)

-----------------------------------------------------------------------------
(* Properties of the File Contents section                                 *)

\* the blocks of file f in the File Contents section
BlocksOf(out, f) == {k \in 1..Len(out.blocks) : out.blocks[k].path = f}

\* C12 as claimed: every file of the content file set, whatever its extension, has
\* exactly one block (start marker, end marker for its outcome) in the File
\* Contents section; a file with an ignored extension has a SKIPPED block; the
\* blocks are in sorted path order
C12_OneBlockPerContentFile ==
    LET out == generated
    IN out.written
       => /\ \A f \in out.files : Cardinality(BlocksOf(out, f)) = 1
          /\ \A f \in out.files :
                file_ext(f) \in IGNORE_EXTENSIONS
                => \E k \in BlocksOf(out, f) : out.blocks[k].outcome = "SKIPPED"
          /\ \A j, k \in 1..Len(out.blocks) :
                j < k => PathRank[out.blocks[j].path] < PathRank[out.blocks[k].path]

\* the status string of a successful generation carries the number of files whose
\* block ended normally or as EMPTY
CountEqualsIncludedBlocks ==
    LET out == generated
    IN out.written
       => /\ status_message.kind = "generated"
          /\ status_message.count =
                Cardinality({f \in out.files :
                    \E k \in BlocksOf(out, f) : out.blocks[k].outcome \in {"NORMAL", "EMPTY"}})

\* C13 as claimed: the files-included count of the status string is the number of
\* files whose block ended normally or as EMPTY; a file of the content file set
\* that has zero bytes has an EMPTY block (and is counted), a file larger than the
\* maximum has a SKIPPED block (and is not counted)
C13_CountAndSizeBlocks ==
    LET out == generated
        sized == out.files \ generation.env.vanished
    IN out.written
       => /\ CountEqualsIncludedBlocks
          /\ \A f \in sized :
                getsize(f) = 0
                => \E k \in BlocksOf(out, f) : out.blocks[k].outcome = "EMPTY"
          /\ \A f \in sized :
                getsize(f) > MAX_FILE_SIZE_BYTES
                => \E k \in BlocksOf(out, f) : out.blocks[k].outcome = "SKIPPED"

\* the files of the content file set that reach the try block of the content loop
Embeddable(out) ==
    {f \in out.files : file_ext(f) \in TARGET_EXTENSIONS /\ file_ext(f) \notin IGNORE_EXTENSIONS}

\* the files for which os.path.getsize or the read raises during this generation
Failing(out, env) ==
    {f \in Embeddable(out) :
        \/ f \in env.vanished
        \/ /\ f \in env.unreadable
           /\ getsize(f) > 0
           /\ getsize(f) <= MAX_FILE_SIZE_BYTES}

\* C14: a failure while sizing or reading a file gives an ERROR block naming that
\* file; every file that is sized or read has its block, also the files that sort
\* after a failing one, and the generation reaches the write and returns its
\* status string
C14_FileFailureIsolated ==
    LET out == generated
        env == generation.env
    IN out.written
       => /\ \A f \in Failing(out, env) :
                \E k \in BlocksOf(out, f) : out.blocks[k].outcome = "ERROR"
          /\ \A f \in Embeddable(out) : Cardinality(BlocksOf(out, f)) = 1
          /\ \A k \in 1..Len(out.blocks) :
                out.blocks[k].outcome = "ERROR" => out.blocks[k].path \in Failing(out, env)
          /\ status_message.kind = "generated"

\* an overview was written in which the read of one file and the sizing of another
\* failed, and a file that sorts after both has its block
C14_Witness ==
    LET out == generated
        env == generation.env
    IN /\ out.written
       /\ \E f \in Failing(out, env) : f \in env.unreadable
       /\ \E f \in Failing(out, env) : f \in env.vanished
       /\ \E k \in 1..Len(out.blocks) :
             /\ out.blocks[k].outcome \in {"NORMAL", "EMPTY"}
             /\ \A f \in Failing(out, env) :
                   PathRank[f] < PathRank[out.blocks[k].path]

-----------------------------------------------------------------------------
(* Properties of the failures                                              *)

\* the generate key was handled with roots and the write of the artifact failed
WriteFailed == last.op = "generate" /\ last.roots # {} /\ ~last.result

\* a failed write comes back as an error status string, nothing is written and
\* roots and exclusions are as before
WriteFailureReported ==
    WriteFailed
    => /\ status_message.kind = "write_error"
       /\ ~generated.written
       /\ selection_roots = last.roots
       /\ explicit_exclusions = last.excl

\* C15 as claimed: when the write of the artifact fails, the call returns an error
\* status string, the loop keeps running with roots and exclusions unchanged and
\* the string is the status message
C15_WriteFailureKeepsLoop ==
    /\ WriteFailureReported
    /\ WriteFailed => pc = "loop"

\* C16 as claimed: whatever os.listdir raises at the displayed location on
\* enter-directory, parent-directory or the refresh after a generation,
\* get_dir_contents returns with a one-line message and the loop goes on
C16_ListingFailureNeverTerminates ==
    (last.op \in {"enter", "parent", "generate"} /\ last.raised # "none")
    => /\ pc = "loop"
       /\ error_msg # None

\* ---------------------------------------------------------------------------
\* Properties of the layout of the artifact
\* ---------------------------------------------------------------------------

\* the place of a part in the fixed order of the artifact
SectionRank(tag) ==
    CASE tag = "PREAMBLE" -> 1
      [] tag = "TITLE" -> 2
      [] tag = "ROOTS_HEADER" -> 3
      [] tag \in {"NO_ROOTS_NOTE", "ROOT_ENTRY"} -> 4
      [] tag = "EXCLUSIONS_HEADER" -> 5
      [] tag = "EXCLUSION_ENTRY" -> 6
      [] tag = "STRUCTURE_HEADER" -> 7
      [] tag \in {"EMPTY_STRUCTURE_NOTE", "TREE_LINE"} -> 8
      [] tag = "CONTENTS_HEADER" -> 9
      [] tag \in {"NO_FILES_NOTE", "BLOCK"} -> 10
      [] tag = "END_MARKER" -> 11

PartsTagged(parts, tag) == {i \in 1..Len(parts) : parts[i].part = tag}

\* the paths of the parts with the given tag, in the order of the artifact
PathsTagged(parts, tag) ==
    LET Tagged(p) == p.part = tag
        tagged == SelectSeq(parts, Tagged)
    IN [i \in 1..Len(tagged) |-> tagged[i].path]

\* C17: a written artifact holds its parts in the fixed order: preamble and
\* title, the SELECTION ROOTS header with one line per root in sorted order,
\* the EXPLICIT EXCLUSIONS header with one line per exclusion in sorted order,
\* the COMBINED PROJECT STRUCTURE header with the tree lines (the lines written
\* in the turn of one root before those of every root sorted after it), the
\* File Contents header with the blocks, and the end marker last; each header
\* is there once, except the EXPLICIT EXCLUSIONS header, which is there exactly
\* when the exclusions are not empty
C17_ArtifactOrderFixed ==
    LET out == generated
        parts == out.parts
        structure == out.structure
    IN (last.op = "generate" /\ out.written) =>
        /\ \A i \in 1..(Len(parts) - 1) :
               SectionRank(parts[i].part) <= SectionRank(parts[i + 1].part)
        /\ \A tag \in {"PREAMBLE", "TITLE", "ROOTS_HEADER", "STRUCTURE_HEADER",
                       "CONTENTS_HEADER", "END_MARKER"} :
               Cardinality(PartsTagged(parts, tag)) = 1
        /\ Cardinality(PartsTagged(parts, "EXCLUSIONS_HEADER"))
               = (IF last.excl # {} THEN 1 ELSE 0)
        /\ PathsTagged(parts, "ROOT_ENTRY") = SortSet(last.roots, PathRank)
        /\ PathsTagged(parts, "EXCLUSION_ENTRY") = SortSet(last.excl, PathRank)
        /\ PathsTagged(parts, "TREE_LINE")
               = [i \in 1..Len(structure) |-> structure[i].path]
        /\ PathsTagged(parts, "BLOCK")
               = [k \in 1..Len(out.blocks) |-> out.blocks[k].path]
        /\ \A i \in 1..(Len(structure) - 1) :
               PathRank[structure[i].root] <= PathRank[structure[i + 1].root]

\* an artifact with exclusions, with tree lines of two roots and with blocks
C17_Witness ==
    LET out == generated
    IN /\ last.op = "generate"
       /\ out.written
       /\ last.excl # {}
       /\ Cardinality({out.structure[i].root : i \in 1..Len(out.structure)}) >= 2
       /\ out.blocks # << >>

\* ---------------------------------------------------------------------------
\* Properties of the order of the tree lines
\* ---------------------------------------------------------------------------

\* the positions of the lines that one root's turn wrote for entries of one directory
SiblingLines(out, i) ==
    {j \in 1..Len(out.structure) :
        /\ out.structure[j].root = out.structure[i].root
        /\ out.structure[j].kind # "root"
        /\ dirname(out.structure[j].path) = dirname(out.structure[i].path)}

\* C18: within one root's tree output the lines of all entries below a
\* directory D come directly after the line of D: before the line of every
\* sibling directory of D that is written after D and before the line of every
\* file that is a sibling of D
C18_DepthFirstDirsBeforeFiles ==
    LET out == generated
    IN (last.op = "generate" /\ out.written) =>
        \A i \in 1..Len(out.structure) :
            (out.structure[i].is_dir /\ out.structure[i].kind # "root") =>
                \A j \in SiblingLines(out, i) :
                    (j # i /\ (~out.structure[j].is_dir \/ j > i)) =>
                        \A k \in 1..Len(out.structure) :
                            (/\ out.structure[k].root = out.structure[i].root
                             /\ IsProperAncestor(out.structure[i].path,
                                                 out.structure[k].path))
                                => (i < k /\ k < j)

\* C19: among the lines that one root's turn writes for the entries of one
\* directory, the directories and the files each stand in case-insensitive
\* name order, the order of get_dir_contents
C19_SiblingsCaseInsensitiveOrder ==
    LET out == generated
    IN (last.op = "generate" /\ out.written) =>
        \A i \in 1..Len(out.structure) :
            out.structure[i].kind # "root" =>
                \A j \in SiblingLines(out, i) :
                    (i < j /\ out.structure[i].is_dir = out.structure[j].is_dir)
                        => LowerRank[basename(out.structure[i].path)]
                               <= LowerRank[basename(out.structure[j].path)]

\* C20: the tree lines depend on the file system, the roots and the exclusions
\* only: a generation in which the system returns the directory entries in
\* another order writes the same sequence of lines
C20_TreeIndependentOfScanOrder ==
    LET out == generated
    IN (last.op = "generate" /\ out.written) =>
        \A env \in GenEnvs :
            Generated(last.roots, last.excl, env).structure = out.structure

\* ---------------------------------------------------------------------------
\* Properties that tie the tree to the effective selection
\* ---------------------------------------------------------------------------

\* the entry has a hidden or ignored name or lies below a directory that has one
HiddenOrIgnoredPath(p) ==
    \E k \in 1..Len(p) : IsHiddenName(p[k]) \/ p[k] \in IGNORE_DIRS \cup IGNORE_FILES

LinePaths(out) == {out.structure[i].path : i \in 1..Len(out.structure)}

\* C21: every existing entry that is effectively selected and neither hidden nor
\* ignored nor below a hidden or ignored directory has a line in the structure
\* section, also a nested root whose parent directory is excluded under an outer
\* root; so every file of the content file set has a line
C21_SelectedEntriesAreListed ==
    LET out == generated
        listed == LinePaths(out)
    IN out.written
       => /\ \A p \in Paths \ {Root} :
                (/\ is_effectively_selected(p, selection_roots, explicit_exclusions)
                 /\ ~HiddenOrIgnoredPath(p))
                    => p \in listed
          /\ \A f \in out.files : ~HiddenOrIgnoredPath(f) => f \in listed

\* ---------------------------------------------------------------------------
\* Properties of the two sets under toggles
\* ---------------------------------------------------------------------------

\* C22: in every state that toggles reach from the empty sets no path is in both
\* roots and exclusions
C22_RootsExclusionsDisjoint ==
    selection_roots \cap explicit_exclusions = {}

\* a toggle of a path that was in exclusions has run and left a root and an
\* exclusion in the sets
C22_Witness ==
    /\ last.op = "toggle"
    /\ last.path \in last.excl
    /\ selection_roots # {}
    /\ explicit_exclusions # {}
\* the paths whose membership differs between two sets
Changed(before, after) == (before \ after) \cup (after \ before)

\* C23: a toggle of path P changes the membership in roots and in exclusions of
\* no path other than P, and the effective selection of every path that is
\* neither P nor below P is what it was before the toggle
C23_ToggleFrame ==
    last.op = "toggle" =>
        /\ Changed(last.roots, selection_roots) \subseteq {last.path}
        /\ Changed(last.excl, explicit_exclusions) \subseteq {last.path}
        /\ \A q \in Paths :
               ~IsAncestorOrSelf(last.path, q) =>
                   is_effectively_selected(q, selection_roots, explicit_exclusions)
                       = is_effectively_selected(q, last.roots, last.excl)

\* a toggle below a root has changed the selection of an entry below the toggled
\* path while a selected entry beside it, with marks of its own in the sets,
\* stays selected
C23_Witness ==
    /\ last.op = "toggle"
    /\ Changed(last.excl, explicit_exclusions) = {last.path}
    /\ \E q \in Paths :
          /\ IsProperAncestor(last.path, q)
          /\ is_effectively_selected(q, selection_roots, explicit_exclusions)
                 # is_effectively_selected(q, last.roots, last.excl)
    /\ \E q \in Paths :
          /\ ~IsAncestorOrSelf(last.path, q)
          /\ ~IsAncestorOrSelf(q, last.path)
          /\ q \in last.roots
          /\ is_effectively_selected(q, selection_roots, explicit_exclusions)

\* ---------------------------------------------------------------------------
\* Properties of the cursor
\* ---------------------------------------------------------------------------

\* the cursor after an iteration of the loop: 0 on an empty listing, else an
\* index of the listing
CursorInRange ==
    IF items = << >> THEN current_selection_idx = 0
    ELSE 0 <= current_selection_idx /\ current_selection_idx < Len(items)

\* navigate-up from the first item goes to the last one and navigate-down from
\* the last item to the first
CursorWraps ==
    /\ (last'.op = "up" /\ items # << >> /\ current_selection_idx = 0)
           => current_selection_idx' = Len(items) - 1
    /\ (last'.op = "down" /\ items # << >> /\ current_selection_idx = Len(items) - 1)
           => current_selection_idx' = 0

\* C24: after every iteration of the loop, whatever the actions were, the cursor
\* is 0 when the listing is empty and else an index of the listing, and the
\* navigation wraps around at both ends of the listing
C24_CursorInRangeAndWraps ==
    [](CursorInRange) /\ [][CursorWraps]_vars

\* navigate-up has wrapped from the first to the last item of a listing of
\* several items
C24_Witness ==
    /\ last.op = "up"
    /\ Len(items) >= 2
    /\ current_selection_idx = Len(items) - 1

====
